---- MODULE Spec2Model ----
(***************************************************************************)
(* Model of the ontology index multiplexers of src/ontology/indexed.rs:    *)
(* the OntologyIndex contract, NullIndex, and the One/Two/Three/Four       *)
(* IndexedOntology composites with their identity fields, accessors and    *)
(* decomposition.                                                          *)
(***************************************************************************)
EXTENDS Integers, Sequences, FiniteSets, TLC

\* ------------------------------------------------------------------ bounds
NumAxioms == 2
MaxIri == 1

\* ------------------------------------------------------------ value types
\* AnnotatedAxiom values the callers insert and remove.
Axioms == 1..NumAxioms

\* Option<T>
None == <<>>
Some(v) == <<v>>

\* IRI values, OntologyID and Option<IRI> (the document IRI).
Iris == 1..MaxIri
DefaultID == None
OntologyIDs == {None} \cup {Some(n) : n \in Iris}
DocIris == {None} \cup {Some(n) : n \in Iris}

\* AA::from(AnnotatedAxiom): the shared handle wrapping one axiom.
From(ax) == [rc |-> ax]
\* Borrow<AnnotatedAxiom>: the axiom behind a handle.
Borrow(aa) == aa.rc
\* Clone of a handle: another reference to the same axiom.
Clone(aa) == [rc |-> aa.rc]

\* ----------------------------------------------------------- leaf indices
\* Every leaf carries the name of the slot it was built for, so that calls
\* it receives can be attributed to it.
NullIndex(n) == [tag |-> "NullIndex", name |-> n]
SetIndex(n) == [tag |-> "SetIndex", name |-> n, s |-> {}]
\* An index that tracks only axioms of one shape and ignores the others.
LossyIndex(n) == [tag |-> "LossyIndex", name |-> n, s |-> {}]
Shape(ax) == ax % 2 = 1

Kinds == {"SetIndex", "NullIndex", "LossyIndex"}
MkIndex(kind, n) ==
    CASE kind = "SetIndex" -> SetIndex(n)
      [] kind = "NullIndex" -> NullIndex(n)
      [] kind = "LossyIndex" -> LossyIndex(n)

Called(x, op, b) == <<[slot |-> x.name, op |-> op, rtn |-> b]>>

\* a null index that reports every axiom as new
NullIndex_index_insert_true(x, aa) ==
    [st |-> x, rtn |-> TRUE, log |-> Called(x, "index_insert", TRUE)]

NullIndex_index_insert(x, aa) ==
    [st |-> x, rtn |-> FALSE, log |-> Called(x, "index_insert", FALSE)]

\* a null index that reports every axiom as removed
NullIndex_index_remove_true(x, ax) ==
    [st |-> x, rtn |-> TRUE, log |-> Called(x, "index_remove", TRUE)]

NullIndex_index_remove(x, ax) ==
    [st |-> x, rtn |-> FALSE, log |-> Called(x, "index_remove", FALSE)]

SetIndex_index_insert(x, aa) ==
    [st |-> [x EXCEPT !.s = @ \cup {aa}],
     rtn |-> aa \notin x.s,
     log |-> Called(x, "index_insert", aa \notin x.s)]

SetIndex_index_remove(x, ax) ==
    LET hit == {aa \in x.s : Borrow(aa) = ax}
    IN [st |-> [x EXCEPT !.s = @ \ hit],
        rtn |-> hit # {},
        log |-> Called(x, "index_remove", hit # {})]

LossyIndex_index_insert(x, aa) ==
    IF Shape(Borrow(aa))
    THEN SetIndex_index_insert(x, aa)
    ELSE [st |-> x, rtn |-> FALSE, log |-> Called(x, "index_insert", FALSE)]

LossyIndex_index_remove(x, ax) ==
    IF Shape(ax)
    THEN SetIndex_index_remove(x, ax)
    ELSE [st |-> x, rtn |-> FALSE, log |-> Called(x, "index_remove", FALSE)]

\* ------------------------------------------------------------- composites
OneIndexedOntology_new(i) ==
    [tag |-> "One", f0 |-> i, f1 |-> DefaultID, f2 |-> None]

TwoIndexedOntology_new(i, j, id) ==
    [tag |-> "Two", f0 |-> i, f1 |-> j, f2 |-> id, f3 |-> None]

ThreeIndexedOntology_new(i, j, k, id) ==
    [tag |-> "Three",
     f0 |-> [tag |-> "Two",
             f0 |-> i,
             f1 |-> [tag |-> "Two", f0 |-> j, f1 |-> k,
                     f2 |-> DefaultID, f3 |-> None],
             f2 |-> id,
             f3 |-> None]]

FourIndexedOntology_new(i, j, k, l, id) ==
    [tag |-> "Four",
     f0 |-> [tag |-> "Two",
             f0 |-> i,
             f1 |-> ThreeIndexedOntology_new(j, k, l, DefaultID),
             f2 |-> id,
             f3 |-> None]]

\* ------------------------------------------- OntologyIndex implementations
RECURSIVE index_insert(_, _)
RECURSIVE index_remove(_, _)

\* self.1.index_insert(ax) && rtn
Two_index_insert_and(x, aa) ==
    LET r0 == index_insert(x.f0, Clone(aa))
        r1 == index_insert(x.f1, aa)
    IN [st |-> [x EXCEPT !.f0 = r0.st, !.f1 = r1.st],
        rtn |-> r1.rtn /\ r0.rtn,
        log |-> r0.log \o r1.log]

\* rtn || self.1.index_insert(ax): the second slot is skipped once the
\* first has reported the axiom as new
Two_index_insert_short(x, aa) ==
    LET r0 == index_insert(x.f0, Clone(aa))
        r1 == IF r0.rtn THEN [st |-> x.f1, rtn |-> FALSE, log |-> <<>>]
              ELSE index_insert(x.f1, aa)
    IN [st |-> [x EXCEPT !.f0 = r0.st, !.f1 = r1.st],
        rtn |-> r0.rtn \/ r1.rtn,
        log |-> r0.log \o r1.log]

Two_index_insert(x, aa) ==
    LET r0 == index_insert(x.f0, Clone(aa))
        r1 == index_insert(x.f1, aa)
    IN [st |-> [x EXCEPT !.f0 = r0.st, !.f1 = r1.st],
        rtn |-> r1.rtn \/ r0.rtn,
        log |-> r0.log \o r1.log]

\* the second slot notified before the first
Two_index_remove_reversed(x, ax) ==
    LET r1 == index_remove(x.f1, ax)
        r0 == index_remove(x.f0, ax)
    IN [st |-> [x EXCEPT !.f0 = r0.st, !.f1 = r1.st],
        rtn |-> r0.rtn \/ r1.rtn,
        log |-> r1.log \o r0.log]

\* rtn || self.1.index_remove(ax)
Two_index_remove_short(x, ax) ==
    LET r0 == index_remove(x.f0, ax)
        r1 == IF r0.rtn THEN [st |-> x.f1, rtn |-> FALSE, log |-> <<>>]
              ELSE index_remove(x.f1, ax)
    IN [st |-> [x EXCEPT !.f0 = r0.st, !.f1 = r1.st],
        rtn |-> r0.rtn \/ r1.rtn,
        log |-> r0.log \o r1.log]

Two_index_remove(x, ax) ==
    LET r0 == index_remove(x.f0, ax)
        r1 == index_remove(x.f1, ax)
    IN [st |-> [x EXCEPT !.f0 = r0.st, !.f1 = r1.st],
        rtn |-> r1.rtn \/ r0.rtn,
        log |-> r0.log \o r1.log]

\* the first call sent to the whole wrapped pair, as index_remove does
Three_index_insert_pair(x, aa) ==
    LET r0 == index_insert(x.f0, Clone(aa))
        r1 == index_insert(r0.st.f1, aa)
    IN [st |-> [x EXCEPT !.f0 = [r0.st EXCEPT !.f1 = r1.st]],
        rtn |-> r1.rtn \/ r0.rtn,
        log |-> r0.log \o r1.log]

\* the result of the first slot dropped
Three_index_insert_last(x, aa) ==
    LET r0 == index_insert(x.f0.f0, Clone(aa))
        r1 == index_insert(x.f0.f1, aa)
    IN [st |-> [x EXCEPT !.f0.f0 = r0.st, !.f0.f1 = r1.st],
        rtn |-> r1.rtn,
        log |-> r0.log \o r1.log]

Three_index_insert(x, aa) ==
    LET r0 == index_insert(x.f0.f0, Clone(aa))
        r1 == index_insert(x.f0.f1, aa)
    IN [st |-> [x EXCEPT !.f0.f0 = r0.st, !.f0.f1 = r1.st],
        rtn |-> r1.rtn \/ r0.rtn,
        log |-> r0.log \o r1.log]

\* The first call goes to the whole wrapped pair (self.0), the second to
\* the pair's second slot ((self.0).1) as the first call left it.
Three_index_remove(x, ax) ==
    LET r0 == index_remove(x.f0, ax)
        r1 == index_remove(r0.st.f1, ax)
    IN [st |-> [x EXCEPT !.f0 = [r0.st EXCEPT !.f1 = r1.st]],
        rtn |-> r1.rtn \/ r0.rtn,
        log |-> r0.log \o r1.log]

index_insert(x, aa) ==
    CASE x.tag = "NullIndex" -> NullIndex_index_insert(x, aa)
      [] x.tag = "SetIndex" -> SetIndex_index_insert(x, aa)
      [] x.tag = "LossyIndex" -> LossyIndex_index_insert(x, aa)
      [] x.tag = "Two" -> Two_index_insert(x, aa)
      [] x.tag = "Three" -> Three_index_insert(x, aa)

index_remove(x, ax) ==
    CASE x.tag = "NullIndex" -> NullIndex_index_remove(x, ax)
      [] x.tag = "SetIndex" -> SetIndex_index_remove(x, ax)
      [] x.tag = "LossyIndex" -> LossyIndex_index_remove(x, ax)
      [] x.tag = "Two" -> Two_index_remove(x, ax)
      [] x.tag = "Three" -> Three_index_remove(x, ax)

\* Some(ax.clone()) whatever index_remove returned
index_take_always(x, ax) ==
    LET r == index_remove(x, ax)
    IN [st |-> r.st, val |-> Some(ax), log |-> r.log]

\* OntologyIndex::index_take, the provided method of the trait.
index_take(x, ax) ==
    LET r == index_remove(x, ax)
    IN [st |-> r.st,
        val |-> IF r.rtn THEN Some(ax) ELSE None,
        log |-> r.log]

\* ----------------------------------------- MutableOntology implementations
One_insert(o, ax) ==
    LET r == index_insert(o.f0, From(ax))
    IN [st |-> [o EXCEPT !.f0 = r.st], rtn |-> r.rtn, log |-> r.log]

One_take(o, ax) ==
    LET r == index_take(o.f0, ax)
    IN [st |-> [o EXCEPT !.f0 = r.st], val |-> r.val, log |-> r.log]

Two_insert(o, ax) == index_insert(o, From(ax))

Two_take(o, ax) == index_take(o, ax)

Three_insert(o, ax) ==
    LET r == Two_insert(o.f0, ax)
    IN [st |-> [o EXCEPT !.f0 = r.st], rtn |-> r.rtn, log |-> r.log]

Three_take(o, ax) ==
    LET r == Two_take(o.f0, ax)
    IN [st |-> [o EXCEPT !.f0 = r.st], val |-> r.val, log |-> r.log]

Four_insert(o, ax) ==
    LET r == Two_insert(o.f0, ax)
    IN [st |-> [o EXCEPT !.f0 = r.st], rtn |-> r.rtn, log |-> r.log]

Four_take(o, ax) ==
    LET r == Two_take(o.f0, ax)
    IN [st |-> [o EXCEPT !.f0 = r.st], val |-> r.val, log |-> r.log]

insert(o, ax) ==
    CASE o.tag = "One" -> One_insert(o, ax)
      [] o.tag = "Two" -> Two_insert(o, ax)
      [] o.tag = "Three" -> Three_insert(o, ax)
      [] o.tag = "Four" -> Four_insert(o, ax)

take(o, ax) ==
    CASE o.tag = "One" -> One_take(o, ax)
      [] o.tag = "Two" -> Two_take(o, ax)
      [] o.tag = "Three" -> Three_take(o, ax)
      [] o.tag = "Four" -> Four_take(o, ax)

\* MutableOntology::remove, the provided method: take(ax).is_some()
remove(o, ax) ==
    LET r == take(o, ax)
    IN [st |-> r.st, rtn |-> r.val # None, log |-> r.log]

\* ------------------------------------------------- accessors, decomposition
One_i(o) == o.f0
One_index(o) == <<o.f0>>

Two_i(o) == o.f0
Two_j(o) == o.f1
Two_index(o) == <<o.f0, o.f1>>

Three_i(o) == Two_i(o.f0)
Three_j(o) == Two_i(Two_j(o.f0))
Three_k(o) == Two_j(Two_j(o.f0))
\* the two inner indices returned in the wrong order
Three_index_swapped(o) ==
    LET index == Two_index(o.f0.f1)
    IN <<o.f0.f0, index[2], index[1]>>

Three_index(o) ==
    LET index == Two_index(o.f0.f1)
    IN <<o.f0.f0, index[1], index[2]>>

Four_i(o) == Two_i(o.f0)
Four_j(o) == Three_i(Two_j(o.f0))
Four_k(o) == Three_j(Two_j(o.f0))
Four_l(o) == Three_k(Two_j(o.f0))
Four_index(o) ==
    LET index == Three_index(o.f0.f1)
    IN <<o.f0.f0, index[1], index[2], index[3]>>

\* What i(), j(), k(), l() return, in that order.
Accessors(o) ==
    CASE o.tag = "One" -> <<One_i(o)>>
      [] o.tag = "Two" -> <<Two_i(o), Two_j(o)>>
      [] o.tag = "Three" -> <<Three_i(o), Three_j(o), Three_k(o)>>
      [] o.tag = "Four" -> <<Four_i(o), Four_j(o), Four_k(o), Four_l(o)>>

index(o) ==
    CASE o.tag = "One" -> One_index(o)
      [] o.tag = "Two" -> Two_index(o)
      [] o.tag = "Three" -> Three_index(o)
      [] o.tag = "Four" -> Four_index(o)

\* ------------------------------------------------------ Ontology identity
One_id(o) == o.f1
One_doc_iri(o) == o.f2
One_mut_id(o, v) == [o EXCEPT !.f1 = v]
One_mut_doc_iri(o, v) == [o EXCEPT !.f2 = v]

Two_id(o) == o.f2
Two_doc_iri(o) == o.f3
Two_mut_id(o, v) == [o EXCEPT !.f2 = v]
Two_mut_doc_iri(o, v) == [o EXCEPT !.f3 = v]

Three_id(o) == Two_id(o.f0)
Three_doc_iri(o) == Two_doc_iri(o.f0)
Three_mut_id(o, v) == [o EXCEPT !.f0 = Two_mut_id(@, v)]
Three_mut_doc_iri(o, v) == [o EXCEPT !.f0 = Two_mut_doc_iri(@, v)]

Four_id(o) == Two_id(o.f0)
Four_doc_iri(o) == Two_doc_iri(o.f0)
\* (self.0).1.mut_id(): the identifier of the nested composite
Four_mut_id_nested(o, v) == [o EXCEPT !.f0.f1 = Three_mut_id(@, v)]

Four_mut_id(o, v) == [o EXCEPT !.f0 = Two_mut_id(@, v)]
Four_mut_doc_iri(o, v) == [o EXCEPT !.f0 = Two_mut_doc_iri(@, v)]

id(o) ==
    CASE o.tag = "One" -> One_id(o)
      [] o.tag = "Two" -> Two_id(o)
      [] o.tag = "Three" -> Three_id(o)
      [] o.tag = "Four" -> Four_id(o)

doc_iri(o) ==
    CASE o.tag = "One" -> One_doc_iri(o)
      [] o.tag = "Two" -> Two_doc_iri(o)
      [] o.tag = "Three" -> Three_doc_iri(o)
      [] o.tag = "Four" -> Four_doc_iri(o)

mut_id(o, v) ==
    CASE o.tag = "One" -> One_mut_id(o, v)
      [] o.tag = "Two" -> Two_mut_id(o, v)
      [] o.tag = "Three" -> Three_mut_id(o, v)
      [] o.tag = "Four" -> Four_mut_id(o, v)

mut_doc_iri(o, v) ==
    CASE o.tag = "One" -> One_mut_doc_iri(o, v)
      [] o.tag = "Two" -> Two_mut_doc_iri(o, v)
      [] o.tag = "Three" -> Three_mut_doc_iri(o, v)
      [] o.tag = "Four" -> Four_mut_doc_iri(o, v)

\* The identity fields of the composites nested inside an arity-3 or
\* arity-4 composite, as <<id, doc_iri>> pairs.
NestedIdentity(o) ==
    CASE o.tag = "Three" -> {<<o.f0.f1.f2, o.f0.f1.f3>>}
      [] o.tag = "Four" -> {<<o.f0.f1.f0.f2, o.f0.f1.f0.f3>>,
                            <<o.f0.f1.f0.f1.f2, o.f0.f1.f0.f1.f3>>}
      [] OTHER -> {}

\* ------------------------------------------------------------------ state
VARIABLES
    ont,      \* the composite
    phase,    \* "live" until index() consumes the composite
    op,       \* the last operation performed on the composite
    arg,      \* the axiom it was given (0 when it takes none)
    rtn,      \* the boolean it returned (take: whether it returned Some)
    taken,    \* what take returned
    log,      \* the index calls the slots received during the operation
    fresh,    \* insert: the axiom had never been inserted before
    first,    \* insert repeating the insert just before it, which was of a
              \* never inserted axiom: Some(what that first insert returned)
    ever,     \* axioms inserted at some time
    present,  \* axioms inserted and not removed since
    idw,      \* identifier given at construction or last written
    docw,     \* document IRI given at construction or last written
    seen,     \* what the accessors returned just before decomposition
    parts,    \* what index() returned
    ref,      \* the same composite built without one of its null slots
    refRtn,   \* what the last operation returned on ref
    refTaken, \* what take returned on ref
    type_iri, \* entity_for_iri: the type IRI it is given
    entity_iri, \* entity_for_iri: the entity IRI it is given
    res       \* entity_for_iri: how the call ended

vars == <<ont, phase, op, arg, rtn, taken, log, fresh, first, ever,
          present,
          idw, docw, seen, parts, ref, refRtn, refTaken,
          type_iri, entity_iri, res>>

\* the state of the composite and of the last operation on it
ontology == <<ont, phase, op, arg, rtn, taken, log, fresh, first, ever,
              present, idw, docw, seen, parts, ref, refRtn, refTaken>>

\* the state of a call of entity_for_iri
vocab == <<type_iri, entity_iri, res>>

\* no call of entity_for_iri has returned
NotCalled == [tag |-> "none"]

SlotNames == <<"i", "j", "k", "l">>
Arities == 1..4

New(leaves, ident) ==
    CASE Len(leaves) = 1 -> OneIndexedOntology_new(leaves[1])
      [] Len(leaves) = 2 -> TwoIndexedOntology_new(leaves[1], leaves[2], ident)
      [] Len(leaves) = 3 ->
           ThreeIndexedOntology_new(leaves[1], leaves[2], leaves[3], ident)
      [] Len(leaves) = 4 ->
           FourIndexedOntology_new(leaves[1], leaves[2], leaves[3],
                                   leaves[4], ident)

NoRef == [tag |-> "None"]

\* leaves without the one at position p
Without(leaves, p) ==
    [q \in 1..(Len(leaves) - 1) |-> IF q < p THEN leaves[q] ELSE leaves[q + 1]]

Init ==
    \E n \in Arities :
      \E kinds \in [1..n -> Kinds] :
        \E ident \in (IF n = 1 THEN {DefaultID} ELSE OntologyIDs) :
          LET leaves == [p \in 1..n |-> MkIndex(kinds[p], SlotNames[p])]
              nulls == {p \in 1..n : kinds[p] = "NullIndex"}
          IN \E drop \in (IF n = 1 \/ nulls = {} THEN {0} ELSE nulls) :
               /\ ont = New(leaves, ident)
               /\ ref = IF drop = 0 THEN NoRef
                        ELSE New(Without(leaves, drop), ident)
               /\ phase = "live"
               /\ op = "new"
               /\ arg = 0
               /\ rtn = FALSE
               /\ taken = None
               /\ log = <<>>
               /\ fresh = FALSE
               /\ first = None
               /\ ever = {}
               /\ present = {}
               /\ idw = id(ont)
               /\ docw = doc_iri(ont)
               /\ seen = <<>>
               /\ parts = <<>>
               /\ refRtn = FALSE
               /\ refTaken = None
               /\ type_iri = <<>>
               /\ entity_iri = <<>>
               /\ res = NotCalled

Insert ==
    \E ax \in Axioms :
      LET r == insert(ont, ax) IN
        /\ phase = "live"
        /\ ont' = r.st
        /\ op' = "insert"
        /\ arg' = ax
        /\ rtn' = r.rtn
        /\ taken' = None
        /\ log' = r.log
        /\ fresh' = (ax \notin ever)
        /\ first' = IF op = "insert" /\ arg = ax /\ fresh
                    THEN Some(rtn) ELSE None
        /\ ever' = ever \cup {ax}
        /\ present' = present \cup {ax}
        /\ IF ref = NoRef
           THEN UNCHANGED <<ref, refRtn>>
           ELSE /\ ref' = insert(ref, ax).st
                /\ refRtn' = insert(ref, ax).rtn
        /\ refTaken' = None
        /\ UNCHANGED <<phase, idw, docw, seen, parts>>
        /\ UNCHANGED vocab

Remove ==
    \E ax \in Axioms :
      LET r == remove(ont, ax) IN
        /\ phase = "live"
        /\ ont' = r.st
        /\ op' = "remove"
        /\ arg' = ax
        /\ rtn' = r.rtn
        /\ taken' = None
        /\ log' = r.log
        /\ fresh' = FALSE
        /\ first' = None
        /\ present' = present \ {ax}
        /\ IF ref = NoRef
           THEN UNCHANGED <<ref, refRtn>>
           ELSE /\ ref' = remove(ref, ax).st
                /\ refRtn' = remove(ref, ax).rtn
        /\ refTaken' = None
        /\ UNCHANGED <<phase, ever, idw, docw, seen, parts>>
        /\ UNCHANGED vocab

Take ==
    \E ax \in Axioms :
      LET r == take(ont, ax) IN
        /\ phase = "live"
        /\ ont' = r.st
        /\ op' = "take"
        /\ arg' = ax
        /\ rtn' = (r.val # None)
        /\ taken' = r.val
        /\ log' = r.log
        /\ fresh' = FALSE
        /\ first' = None
        /\ present' = present \ {ax}
        /\ IF ref = NoRef
           THEN UNCHANGED <<ref, refRtn, refTaken>>
           ELSE /\ ref' = take(ref, ax).st
                /\ refRtn' = (take(ref, ax).val # None)
                /\ refTaken' = take(ref, ax).val
        /\ UNCHANGED <<phase, ever, idw, docw, seen, parts>>
        /\ UNCHANGED vocab

\* *o.mut_id() = v
SetId ==
    \E v \in OntologyIDs :
        /\ phase = "live"
        /\ ont' = mut_id(ont, v)
        /\ idw' = v
        /\ op' = "mut_id"
        /\ arg' = 0
        /\ rtn' = FALSE
        /\ taken' = None
        /\ log' = <<>>
        /\ fresh' = FALSE
        /\ first' = None
        /\ ref' = IF ref = NoRef THEN ref ELSE mut_id(ref, v)
        /\ refRtn' = FALSE
        /\ refTaken' = None
        /\ UNCHANGED <<phase, ever, present, docw, seen, parts>>
        /\ UNCHANGED vocab

\* *o.mut_doc_iri() = v
SetDocIri ==
    \E v \in DocIris :
        /\ phase = "live"
        /\ ont' = mut_doc_iri(ont, v)
        /\ docw' = v
        /\ op' = "mut_doc_iri"
        /\ arg' = 0
        /\ rtn' = FALSE
        /\ taken' = None
        /\ log' = <<>>
        /\ fresh' = FALSE
        /\ first' = None
        /\ ref' = IF ref = NoRef THEN ref ELSE mut_doc_iri(ref, v)
        /\ refRtn' = FALSE
        /\ refTaken' = None
        /\ UNCHANGED <<phase, ever, present, idw, seen, parts>>
        /\ UNCHANGED vocab

\* let parts = o.index(), the accessors having been read just before
Decompose ==
    /\ phase = "live"
    /\ phase' = "decomposed"
    /\ seen' = Accessors(ont)
    /\ parts' = index(ont)
    /\ op' = "index"
    /\ arg' = 0
    /\ rtn' = FALSE
    /\ taken' = None
    /\ log' = <<>>
    /\ fresh' = FALSE
    /\ first' = None
    /\ refRtn' = FALSE
    /\ refTaken' = None
    /\ UNCHANGED <<ont, ever, present, idw, docw, ref>>
    /\ UNCHANGED vocab

\* Operations on the stored axioms and decomposition.
Next == Insert \/ Remove \/ Take \/ Decompose

Spec == Init /\ [][Next]_vars

\* The same with writes to the identity fields.
NextIdentity == Insert \/ Remove \/ Take \/ Decompose \/ SetId \/ SetDocIri

SpecIdentity == Init /\ [][NextIdentity]_vars

\* ------------------------------------------------------- vocab: strings
\* A str is the sequence of its characters; a character outside ASCII takes
\* more than one byte in UTF-8.
WideChar == "U+00E9"
len_utf8(c) == IF c = WideChar THEN 2 ELSE 1

\* str::len: the length in bytes
RECURSIVE len(_)
len(s) == IF s = <<>> THEN 0 ELSE len_utf8(Head(s)) + len(Tail(s))

\* str::is_char_boundary
is_char_boundary(s, n) ==
    \E k \in 0..Len(s) : len(SubSeq(s, 1, k)) = n

\* &s[n..] where n is a character boundary
slice_from(s, n) ==
    LET k == CHOOSE k \in 0..Len(s) : len(SubSeq(s, 1, k)) = n
    IN SubSeq(s, k + 1, Len(s))

OWL == <<"h", "t", "t", "p", ":", "/", "/", "w", "w", "w", ".", "w",
      "3", ".", "o", "r", "g", "/", "2", "0", "0", "2", "/", "0",
      "7", "/", "o", "w", "l", "#">>
RDFS == <<"h", "t", "t", "p", ":", "/", "/", "w", "w", "w", ".", "w",
      "3", ".", "o", "r", "g", "/", "2", "0", "0", "0", "/", "0",
      "1", "/", "r", "d", "f", "-", "s", "c", "h", "e", "m", "a",
      "#">>

S_Class == <<"C", "l", "a", "s", "s">>
S_ObjectProperty == <<"O", "b", "j", "e", "c", "t", "P", "r", "o", "p", "e", "r",
      "t", "y">>
S_DatatypeProperty == <<"D", "a", "t", "a", "t", "y", "p", "e", "P", "r", "o", "p",
      "e", "r", "t", "y">>
S_AnnotationProperty == <<"A", "n", "n", "o", "t", "a", "t", "i", "o", "n", "P", "r",
      "o", "p", "e", "r", "t", "y">>
S_NamedIndividual == <<"N", "a", "m", "e", "d", "I", "n", "d", "i", "v", "i", "d",
      "u", "a", "l">>
S_Datatype == <<"D", "a", "t", "a", "t", "y", "p", "e">>
S_Fred == <<"F", "r", "e", "d">>
S_class == <<"c", "l", "a", "s", "s">>

\* "http://www.w3.org/2000/01/rdf-schema#Datatype"
RDFS_Datatype == RDFS \o S_Datatype

\* the number of bytes entity_for_iri skips before the name of the type
TypeNameAt == 30

\* Result<NamedEntity, Error>, and the panic that ends the process
Ok(kind, iri) == [tag |-> "Ok", kind |-> kind, iri |-> iri]
Err(msg) == [tag |-> "Err", msg |-> msg]
Panic(msg) == [tag |-> "Panic", msg |-> msg]

entity_for_iri(t, e) ==
    IF t = RDFS_Datatype
    THEN Ok("Datatype", e)
    ELSE IF len(t) < TypeNameAt
    THEN Err("IRI is not for a type of entity")
    ELSE IF ~is_char_boundary(t, TypeNameAt)
    THEN Panic("byte index is not a char boundary")
    ELSE LET name == slice_from(t, TypeNameAt)
         IN CASE name = S_Class -> Ok("Class", e)
              [] name = S_ObjectProperty -> Ok("ObjectProperty", e)
              [] name = S_DatatypeProperty -> Ok("DatatypeProperty", e)
              [] name = S_AnnotationProperty -> Ok("AnnotationProperty", e)
              [] name = S_NamedIndividual -> Ok("NamedIndividual", e)
              [] OTHER -> Err("IRI is not a type of entity")

\* The type IRIs the calls are made with: a prefix followed by a name.
Prefixes ==
    { OWL,
      RDFS,
      SubSeq(OWL, 1, 29) \o <<WideChar>>,
      SubSeq(OWL, 1, 28) \o <<WideChar>>,
      SubSeq(OWL, 1, 7),
      <<>> }

Names ==
    { S_Class, S_ObjectProperty, S_DatatypeProperty, S_AnnotationProperty,
      S_NamedIndividual, S_Datatype, S_Fred, S_class, <<>> }

TypeIris == {p \o n : p \in Prefixes, n \in Names}

\* "http://www.example.com" of the test, and an empty entity IRI
EntityIris == {<<"h", "t", "t", "p", ":", "/", "/", "w", "w", "w", ".", "e",
      "x", "a", "m", "p", "l", "e", ".", "c", "o", "m">>, <<>>}

InitVocab ==
    /\ ont = OneIndexedOntology_new(NullIndex("i"))
    /\ ref = NoRef
    /\ phase = "live"
    /\ op = "new"
    /\ arg = 0
    /\ rtn = FALSE
    /\ taken = None
    /\ log = <<>>
    /\ fresh = FALSE
    /\ first = None
    /\ ever = {}
    /\ present = {}
    /\ idw = id(ont)
    /\ docw = doc_iri(ont)
    /\ seen = <<>>
    /\ parts = <<>>
    /\ refRtn = FALSE
    /\ refTaken = None
    /\ type_iri \in TypeIris
    /\ entity_iri \in EntityIris
    /\ res = NotCalled

\* let res = entity_for_iri(type_iri, entity_iri, &b)
Resolve ==
    /\ res = NotCalled
    /\ res' = entity_for_iri(type_iri, entity_iri)
    /\ UNCHANGED <<type_iri, entity_iri>>
    /\ UNCHANGED ontology

NextVocab == Resolve

SpecVocab == InitVocab /\ [][NextVocab]_vars

\* ----------------------------------------------------------------- claims
Arity(o) == Len(Accessors(o))
Slot(o, p) == Accessors(o)[p]

\* The axioms a leaf index holds.
Content(x) == IF x.tag = "NullIndex" THEN {} ELSE {Borrow(aa) : aa \in x.s}

\* Every slot is a durable, complete set index.
AllDurable(o) == \A p \in 1..Arity(o) : Slot(o, p).tag = "SetIndex"

\* The calls of one kind the slot at position p received in the last operation.
CallsTo(p, call) ==
    {n \in 1..Len(log) : log[n].slot = SlotNames[p] /\ log[n].op = call}

\* C1: in a composite whose slots are all durable set indices, every slot
\* holds exactly the axioms inserted and not removed since, so that any two
\* slots hold equal content with the same count.
C1_CrossSlotConsistency ==
    AllDurable(ont) =>
        \A p \in 1..Arity(ont) :
            /\ Content(Slot(ont, p)) = present
            /\ Cardinality(Slot(ont, p).s) = Cardinality(present)
            /\ Slot(ont, p) = [Slot(ont, 1) EXCEPT !.name = SlotNames[p]]

\* four durable slots, every axiom inserted, then all removed again
C1_Witness ==
    /\ ont.tag = "Four"
    /\ AllDurable(ont)
    /\ ever = Axioms
    /\ present = {}
    /\ op = "remove"
    /\ rtn

\* C2: one insert on the composite calls index_insert exactly once on every
\* slot, whatever the slots before it returned.
C2_InsertCallsEachSlotOnce ==
    op = "insert" =>
        /\ \A p \in 1..Arity(ont) :
               Cardinality(CallsTo(p, "index_insert")) = 1
        /\ Len(log) = Arity(ont)

\* an insert on four slots whose first slot reported the axiom as new
C2_Witness ==
    /\ op = "insert"
    /\ ont.tag = "Four"
    /\ log[1].rtn
    /\ Cardinality(CallsTo(4, "index_insert")) = 1

\* C3: insert returns the logical OR of the results of its slots'
\* index_insert calls.
C3_InsertReturnsOr ==
    op = "insert" => (rtn <=> \E n \in 1..Len(log) : log[n].rtn)

\* an insert on four slots that some slots reported new and others did not
C3_Witness ==
    /\ op = "insert"
    /\ ont.tag = "Four"
    /\ rtn
    /\ log[2].rtn
    /\ \E n \in 1..Len(log) : ~log[n].rtn

\* a slot lost the axiom in the step from composite o to composite o2
RemovedFrom(o, o2, ax) ==
    \E p \in 1..Arity(o) :
        ax \in Content(Slot(o, p)) /\ ax \notin Content(Slot(o2, p))

\* C4: remove returns the logical OR of its slots' index_remove results, which
\* is true exactly when some slot lost the axiom, and every slot receives
\* index_remove, also after an earlier slot returned true.
C4_RemoveReturnsOr ==
    [][op' = "remove" =>
          /\ rtn' <=> \E n \in 1..Len(log') : log'[n].rtn
          /\ rtn' <=> RemovedFrom(ont, ont', arg')
          /\ \A p \in 1..Arity(ont) :
                 \E n \in 1..Len(log') :
                     /\ log'[n].slot = SlotNames[p]
                     /\ log'[n].op = "index_remove"]_vars

\* a remove on two slots whose first slot returned true and whose second slot
\* was still called, and returned false
C4_Witness ==
    /\ op = "remove"
    /\ ont.tag = "Two"
    /\ rtn
    /\ Len(log) = 2
    /\ log[1].rtn
    /\ log[2].slot = "j" /\ ~log[2].rtn

\* The leaf index keeps the axiom when it is inserted.
Tracks(x, ax) ==
    \/ x.tag = "SetIndex"
    \/ x.tag = "LossyIndex" /\ Shape(ax)

\* C5 as stated: of two inserts in a row of a never inserted axiom, into any
\* composite, the first returns true and the second false.
C5_Original == first # None => (first = Some(TRUE) /\ ~rtn)

\* C5 amended: the same, for a composite with a slot that tracks the axiom.
C5_InsertTwice ==
    (first # None /\ \E p \in 1..Arity(ont) : Tracks(Slot(ont, p), arg))
        => (first = Some(TRUE) /\ ~rtn)

\* the second of two inserts in a row, into three slots of which one tracks
\* the axiom, one ignores it and one is null
C5_Witness ==
    /\ first = Some(TRUE)
    /\ op = "insert"
    /\ ~rtn
    /\ ont.tag = "Three"
    /\ \E p, q, r \in 1..3 :
           /\ Slot(ont, p).tag = "NullIndex"
           /\ Slot(ont, q).tag = "LossyIndex" /\ ~Shape(arg)
           /\ Slot(ont, r).tag = "SetIndex"

\* C6: removing an axiom that is not present (never inserted, or removed
\* since its last insert) returns false.
C6_RemoveAbsent ==
    [][(op' = "remove" /\ arg' \notin present) => ~rtn']_vars

\* an axiom that was inserted and removed is removed once more from four
\* durable slots
C6_Witness ==
    /\ op = "remove"
    /\ ~rtn
    /\ arg \in ever
    /\ arg \notin present
    /\ ont.tag = "Four"
    /\ AllDurable(ont)
    /\ \A n \in 1..Len(log) : ~log[n].rtn

\* C7: take returns Some(the supplied axiom) exactly when its removal
\* returned true, that is when some slot lost the axiom, and None otherwise;
\* the value is the caller's, no slot holds the axiom any more.
C7_Take ==
    [][op' = "take" =>
          /\ taken' = IF RemovedFrom(ont, ont', arg')
                      THEN Some(arg') ELSE None
          /\ (taken' # None) <=> \E n \in 1..Len(log') : log'[n].rtn
          /\ \A p \in 1..Arity(ont') : arg' \notin Content(Slot(ont', p))]_vars

\* a take on four slots that returned the axiom
C7_Witness ==
    /\ op = "take"
    /\ taken = Some(arg)
    /\ ont.tag = "Four"
    /\ \E n \in 1..Len(log) : ~log[n].rtn

\* C8: the identifier and the document IRI read through the composite are
\* the construction-time values or the last ones written through it, and
\* the identity fields of nested composites stay at their default.
C8_Identity ==
    /\ id(ont) = idw
    /\ doc_iri(ont) = docw
    /\ \A pair \in NestedIdentity(ont) : pair = <<DefaultID, None>>

\* an arity-4 composite whose identifier and document IRI were written, after
\* a take that removed something
C8_Witness ==
    /\ ont.tag = "Four"
    /\ idw # DefaultID
    /\ docw # None
    /\ id(ont) = idw
    /\ op = "take"
    /\ rtn

\* C9: index() yields the index instances in construction order, each equal
\* to what the accessors i(), j(), k(), l() returned just before.
C9_Decomposition ==
    phase = "decomposed" =>
        /\ parts = seen
        /\ Len(parts) = Arity(ont)
        /\ \A p \in 1..Len(parts) : parts[p].name = SlotNames[p]

\* an arity-4 composite decomposed while its slots hold different content
C9_Witness ==
    /\ phase = "decomposed"
    /\ Len(parts) = 4
    /\ parts[4].tag = "SetIndex" /\ parts[4].s # {}
    /\ parts[3].tag = "LossyIndex"
    /\ Content(parts[3]) # Content(parts[4])

\* Leaves of o that have a leaf of the same slot name in r.
Kept(o, r) ==
    {p \in 1..Arity(o) : \E q \in 1..Arity(r) : Slot(r, q).name = Slot(o, p).name}

\* C10: a null index keeps no state and returns false to every call, and a
\* composite with a null slot returns the same results and keeps the same
\* content in its other slots as the composite built without that slot.
C10_NullSlot ==
    /\ \A p \in 1..Arity(ont) :
           Slot(ont, p).tag = "NullIndex" =>
               /\ Slot(ont, p) = NullIndex(SlotNames[p])
               /\ \A n \in 1..Len(log) :
                      log[n].slot = SlotNames[p] => ~log[n].rtn
    /\ ref # NoRef =>
           /\ Arity(ref) = Arity(ont) - 1
           /\ Cardinality(Kept(ont, ref)) = Arity(ref)
           /\ refRtn = rtn
           /\ refTaken = taken
           /\ \A p \in Kept(ont, ref) :
                  \E q \in 1..Arity(ref) : Slot(ref, q) = Slot(ont, p)

\* a remove that succeeded on an arity-4 composite with a null slot and on
\* the arity-3 composite without it
C10_Witness ==
    /\ ref # NoRef
    /\ ont.tag = "Four"
    /\ ref.tag = "Three"
    /\ op = "remove"
    /\ rtn /\ refRtn

\* C12: one remove or take on the composite calls index_remove exactly once
\* on every slot, as one insert calls index_insert exactly once on every slot.
C12_RemoveCallsEachSlotOnce ==
    op \in {"remove", "take"} =>
        /\ \A p \in 1..Arity(ont) :
               Cardinality(CallsTo(p, "index_remove")) = 1
        /\ Len(log) = Arity(ont)

\* The place in the log of the first call the slot at position p received.
FirstCall(p) ==
    CHOOSE n \in 1..Len(log) :
        /\ log[n].slot = SlotNames[p]
        /\ \A m \in 1..(n - 1) : log[m].slot # SlotNames[p]

\* C13: an insert or a remove on a composite of arity 2 to 4 reaches its
\* slots in construction order: every slot is notified, a slot is first
\* notified after every slot to its left, and the last call goes to the last
\* slot.
C13_LeftToRight ==
    (op \in {"insert", "remove", "take"} /\ Arity(ont) >= 2) =>
        /\ \A p \in 1..Arity(ont) :
               \E n \in 1..Len(log) : log[n].slot = SlotNames[p]
        /\ \A p, q \in 1..Arity(ont) : p < q => FirstCall(p) < FirstCall(q)
        /\ log[Len(log)].slot = SlotNames[Arity(ont)]
        /\ \A n \in 1..Len(log) :
               log[n].op = IF op = "insert" THEN "index_insert"
                           ELSE "index_remove"

\* a remove on four slots, the first of which returned true, that went on to
\* the last slot
C13_Witness ==
    /\ op = "remove"
    /\ ont.tag = "Four"
    /\ log[1].slot = "i" /\ log[1].rtn
    /\ log[Len(log)].slot = "l"
    /\ FirstCall(2) < FirstCall(3)

\* the names of the entity types entity_for_iri knows
EntityTypeNames ==
    { S_Class, S_ObjectProperty, S_DatatypeProperty, S_AnnotationProperty,
      S_NamedIndividual }

\* str::ends_with
ends_with(s, n) ==
    Len(s) >= Len(n) /\ SubSeq(s, Len(s) - Len(n) + 1, Len(s)) = n

\* The type IRI ends in the name of a known entity type.
KnownSuffix(t) ==
    t = RDFS_Datatype \/ \E n \in EntityTypeNames : ends_with(t, n)

\* C11: entity_for_iri succeeds for a type IRI of the OWL namespace that ends
\* in a known entity type name, returns an error value for every type IRI
\* that matches no known suffix or is too short, and never ends the process.
C11_EntityForIri ==
    res # NotCalled =>
        /\ (\E n \in EntityTypeNames : type_iri = OWL \o n) => res.tag = "Ok"
        /\ (~KnownSuffix(type_iri) \/ len(type_iri) < TypeNameAt)
               => res.tag = "Err"
        /\ res.tag # "Panic"

====
